---- MODULE Spec2Model ----
(***************************************************************************)
(* Tenant Hunter (src/tenant_hunter.py): the evaluation pipeline run_scan  *)
(* drives for every job of the control sheet: listing search and filter,   *)
(* review lookup, batching, scoring with retry, ranking, output.           *)
(*                                                                         *)
(* Encoding of Python values:                                              *)
(*   - a dict key that may be absent is a sequence: << >> when the key is  *)
(*     absent (or the value None), <<v>> when it is present;               *)
(*   - a str whose characters matter is a sequence of 1-character strings; *)
(*   - a rating is an integer number of tenths (3.0 is 30);                *)
(*   - datetime.now() is the opaque token "now".                           *)
(***************************************************************************)
EXTENDS Integers, Sequences, FiniteSets, TLC

(* ------------------------------------------------------------------ *)
(* Program constants                                                   *)
(* ------------------------------------------------------------------ *)
BATCH_SIZE == 20

FILTER_HIGH_ONLY == TRUE

REVIEW_FILTER_MIN_COUNT == 3

RATING_FILTER_MIN == 30

max_retries == 5

PAGE_CAP == 50

SEARCH_LIMIT == 50

(* ------------------------------------------------------------------ *)
(* Bounds of the model                                                 *)
(* ------------------------------------------------------------------ *)
MaxJobs == 2

MaxUnitBatch == 4

(* ------------------------------------------------------------------ *)
(* dict.get(key, default)                                              *)
(* ------------------------------------------------------------------ *)
Get(opt, default) == IF opt = << >> THEN default ELSE opt[1]

Min(a, b) == IF a < b THEN a ELSE b

(* ------------------------------------------------------------------ *)
(* str.strip().lower() on the status cell                              *)
(* ------------------------------------------------------------------ *)
LowerChar(c) ==
    CASE c = "A" -> "a"
      [] c = "C" -> "c"
      [] c = "T" -> "t"
      [] c = "I" -> "i"
      [] c = "V" -> "v"
      [] c = "E" -> "e"
      [] OTHER -> c

Lower(s) == [k \in 1..Len(s) |-> LowerChar(s[k])]

RECURSIVE LStrip(_)
LStrip(s) == IF s # << >> /\ Head(s) = " " THEN LStrip(Tail(s)) ELSE s

RECURSIVE RStrip(_)
RStrip(s) ==
    IF s # << >> /\ s[Len(s)] = " " THEN RStrip(SubSeq(s, 1, Len(s) - 1)) ELSE s

Strip(s) == RStrip(LStrip(s))

ACTIVE == <<"a", "c", "t", "i", "v", "e">>

(* the status test without lower() *)
IsActiveCaseSensitive(row) == Strip(Get(row.status, << >>)) = ACTIVE

(* run_scan's status test: the job is skipped when this is FALSE *)
IsActive(row) == Lower(Strip(Get(row.status, << >>))) = ACTIVE

(* ------------------------------------------------------------------ *)
(* [term.strip() for term in cell.split(',')]                          *)
(* ------------------------------------------------------------------ *)
RECURSIVE Split(_, _)
Split(s, cur) ==
    IF s = << >> THEN <<cur>>
    ELSE IF Head(s) = "," THEN <<cur>> \o Split(Tail(s), << >>)
    ELSE Split(Tail(s), Append(cur, Head(s)))

SearchTerms(cell) ==
    LET parts == Split(cell, << >>)
    IN  [k \in 1..Len(parts) |-> Strip(parts[k])]

RequiredKeys == {"Property Name", "City", "Search Terms", "Sheet Prefix", "Suite Sizes"}

(* ------------------------------------------------------------------ *)
(* yelp_search_leads: the filter and the lead built from a business    *)
(* ------------------------------------------------------------------ *)
(* the count threshold with <= for <: exactly 3 reviews is rejected *)
RejectedAtThreshold(business) ==
    \/ Get(business.review_count, 0) <= REVIEW_FILTER_MIN_COUNT
    \/ Get(business.rating, 0) < RATING_FILTER_MIN

Rejected(business) ==
    \/ Get(business.review_count, 0) < REVIEW_FILTER_MIN_COUNT
    \/ Get(business.rating, 0) < RATING_FILTER_MIN

(* pos is a ghost field: the position the lead will have in all_leads *)
Lead(business, term, pos) ==
    [name          |-> business.name,
     address       |-> business.address,
     phone         |-> business.phone,
     business_id   |-> business.id,
     rating        |-> Get(business.rating, 0),
     review_count  |-> Get(business.review_count, 0),
     business_type |-> term,
     source        |-> "Yelp API",
     reviews       |-> << >>,
     pos           |-> pos]

RECURSIVE AppendLeads(_, _, _)
AppendLeads(leads, businesses, term) ==
    IF businesses = << >> THEN leads
    ELSE LET b == Head(businesses)
         IN  IF Rejected(b)
             THEN AppendLeads(leads, Tail(businesses), term)
             ELSE AppendLeads(Append(leads, Lead(b, term, Len(leads) + 1)),
                              Tail(businesses), term)

(* ------------------------------------------------------------------ *)
(* ai_evaluate_batch, after a parsed response: map, sort, filter       *)
(* ------------------------------------------------------------------ *)
Evaluated(lead, eval_row) ==
    [name          |-> lead.name,
     address       |-> lead.address,
     phone         |-> lead.phone,
     business_id   |-> lead.business_id,
     rating        |-> lead.rating,
     review_count  |-> lead.review_count,
     business_type |-> lead.business_type,
     source        |-> lead.source,
     reviews       |-> lead.reviews,
     pos           |-> lead.pos,
     Likelihood    |-> Get(eval_row.Likelihood, "Low"),
     Score         |-> Get(eval_row.Score, 0),
     Reasoning     |-> Get(eval_row.Reasoning, "")]

RECURSIVE MapEvals(_, _, _)
MapEvals(batch, evals, idx) ==
    IF idx >= Len(evals) THEN << >>
    ELSE IF idx >= Len(batch) THEN << >>
    ELSE <<Evaluated(batch[idx + 1], evals[idx + 1])>> \o MapEvals(batch, evals, idx + 1)

(* the mapping off by one: response object x+1 lands on candidate x *)
EvaluatedLeadsSkewed(batch, evals) ==
    MapEvals(batch, IF evals = << >> THEN << >> ELSE Tail(evals), 0)

EvaluatedLeads(batch, evals) == MapEvals(batch, evals, 0)

(* sorted(..., key=Score, reverse=True): stable, descending *)
(* the insertion with > for >=: equal scores come out reversed *)
RECURSIVE InsertDescUnstable(_, _)
InsertDescUnstable(sorted, x) ==
    IF sorted = << >> THEN <<x>>
    ELSE IF Head(sorted).Score > x.Score
         THEN <<Head(sorted)>> \o InsertDescUnstable(Tail(sorted), x)
         ELSE <<x>> \o sorted

RECURSIVE InsertDesc(_, _)
InsertDesc(sorted, x) ==
    IF sorted = << >> THEN <<x>>
    ELSE IF Head(sorted).Score >= x.Score
         THEN <<Head(sorted)>> \o InsertDesc(Tail(sorted), x)
         ELSE <<x>> \o sorted

RECURSIVE SortFrom(_, _)
SortFrom(done, rest) ==
    IF rest = << >> THEN done ELSE SortFrom(InsertDesc(done, Head(rest)), Tail(rest))

SortedLeads(evaluated) == SortFrom(<< >>, evaluated)

(* pos is a ghost column; reasoning is f"Score: {Score} | {Reasoning}" *)
Row(lead) ==
    [name          |-> lead.name,
     address       |-> lead.address,
     phone         |-> lead.phone,
     rating        |-> lead.rating,
     review_count  |-> lead.review_count,
     business_type |-> lead.business_type,
     source        |-> lead.source,
     likelihood    |-> lead.Likelihood,
     run_timestamp |-> "now",
     reasoning     |-> <<"Score: ", lead.Score, " | ", lead.Reasoning>>,
     pos           |-> lead.pos,
     business_id   |-> lead.business_id]

Dropped(lead) == FILTER_HIGH_ONLY /\ lead.Likelihood # "High"

RECURSIVE FinalOutput(_)
FinalOutput(sorted) ==
    IF sorted = << >> THEN << >>
    ELSE IF Dropped(Head(sorted)) THEN FinalOutput(Tail(sorted))
    ELSE <<Row(Head(sorted))>> \o FinalOutput(Tail(sorted))

RowScore(row) == row.reasoning[2]

(* ------------------------------------------------------------------ *)
(* The environment: what the control sheet and the three services may  *)
(* answer                                                              *)
(* ------------------------------------------------------------------ *)
FlagActive == <<"a", "c", "t", "i", "v", "e">>

FlagUpper == <<"A", "C", "T", "I", "V", "E">>

FlagPadded == <<" ", "A", "c", "t", "i", "v", "e", " ">>

FlagPaused == <<"p", "a", "u", "s", "e", "d">>

FlagPrefix == <<"a", "c", "t", "i", "v">>

(* a control row: the cells run_scan reads; missing = required keys absent *)
Job(status, cell, prefix, missing) ==
    [status |-> status, search_terms |-> cell, prefix |-> prefix, missing |-> missing]

CellOne == <<"a">>

CellTwo == <<"a", ",", " ", "b">>

JobKinds ==
    { Job(<<FlagActive>>, CellOne, "PA", {}),
      Job(<<FlagUpper>>, CellTwo, "PB", {}),
      Job(<<FlagPadded>>, CellOne, "PC", {}),
      Job(<<FlagActive>>, CellOne, "PD", {"City"}),
      Job(<<FlagPaused>>, CellTwo, "PE", {}),
      Job(<<FlagPrefix>>, CellOne, "PF", {}),
      Job(<< << >> >>, CellOne, "PG", {}),
      Job(<< >>, CellOne, "PH", {"Property Name"}) }

RECURSIVE SeqsUpTo(_, _)
SeqsUpTo(S, n) ==
    IF n = 0 THEN {<< >>}
    ELSE LET shorter == SeqsUpTo(S, n - 1)
         IN  shorter \cup {Append(q, x) : q \in shorter, x \in S}


(* a business of the listing answer *)
Business(n, id, rating, review_count) ==
    [id |-> id, name |-> <<"name", n>>, address |-> <<"addr", n>>,
     phone |-> <<"tel", n>>, rating |-> rating, review_count |-> review_count]

PageMixed ==
    << Business(1, <<1>>, <<30>>, <<3>>),
       Business(2, <<2>>, <<29>>, <<10>>),
       Business(3, <<3>>, << >>, <<10>>),
       Business(4, << >>, <<45>>, <<4>>),
       Business(5, <<5>>, <<50>>, <<2>>) >>

PageRejected == << Business(6, <<6>>, <<50>>, <<0>>), Business(7, <<7>>, <<40>>, << >>) >>

PageBig(n) == [x \in 1..n |-> Business(x, <<x>>, <<40>>, <<10>>)]

BigSizes == {BATCH_SIZE + 1}

(* the term of a call of yelp_search_leads taken alone *)
UnitTerm == <<"c">>

(* the listing answers considered: term "a" is the populous one, and the  *)
(* term of the paging loop taken alone can get full pages                 *)
YelpPages(term) ==
    IF term = <<"a">>
    THEN {<< >>, PageMixed} \cup {PageBig(n) : n \in BigSizes}
    ELSE IF term = UnitTerm
    THEN {<< >>, PageMixed} \cup {PageBig(n) : n \in BigSizes \cup {PAGE_CAP}}
    ELSE {<< >>, PageMixed, PageRejected}

(* review lookup: the outcome kinds and the reviews list each one yields *)
LookupOutcomes == {"ok", "ok_empty", "404", "429", "http_error", "conn_error"}

LookupResult(outcome) == IF outcome = "ok" THEN <<"r1", "r2">> ELSE << >>

(* the answers considered for a term: any outcome per lead on a short   *)
(* term, one fixed outcome per business id on a long one                *)
LookupAnswers(lead, nleads) ==
    IF nleads <= 2 THEN LookupOutcomes
    ELSE LET id == lead.business_id[1]
         IN  CASE id % 4 = 0 -> {"404"}
               [] id % 4 = 1 -> {"ok"}
               [] id % 4 = 2 -> {"429"}
               [] OTHER -> {"conn_error"}

(* scoring: response objects, and the parsed arrays considered *)
Eval(likelihood, score) ==
    [Likelihood |-> likelihood, Score |-> score, Reasoning |-> <<"why">>]

EvalEmpty == [Likelihood |-> << >>, Score |-> << >>, Reasoning |-> << >>]

H90 == Eval(<<"High">>, <<90>>)

H10 == Eval(<<"High">>, <<10>>)

H5 == Eval(<<"High">>, <<5>>)

M90 == Eval(<<"Medium">>, <<90>>)

H80 == Eval(<<"High">>, <<80>>)

H95 == Eval(<<"High">>, <<95>>)

Uniform(e, m) == [x \in 1..m |-> e]

(* High 5, Medium 90, High 90, High 5, ... *)
Cycle(m) == [x \in 1..m |-> IF x % 3 = 1 THEN H5 ELSE IF x % 3 = 2 THEN M90 ELSE H90]

(* a full answer, a short one, a long mixed one; and for two candidates  *)
(* the answer High 80, High 95                                          *)
Responses(n) ==
    {Uniform(H90, n), Uniform(H10, n - 1), Cycle(n + 1)}
        \cup (IF n = 2 THEN {<<H80, H95>>} ELSE {})

RetryableFailures == {"missing_body", "malformed_json", "http_5xx", "http_429", "conn_error"}

RECURSIVE Pow2(_)
Pow2(n) == IF n = 0 THEN 1 ELSE 2 * Pow2(n - 1)

(* ------------------------------------------------------------------ *)
(* State                                                               *)
(* ------------------------------------------------------------------ *)
VARIABLES
    n_rows,                \* len(control_rows)
    control_row,           \* run_scan: control_dict of the row being processed
    pc,                    \* position of run_scan
    j,                     \* 1-based index of the row being processed
    search_terms,          \* run_scan: search_terms of the job
    t,                     \* index of term in search_terms
    all_evaluated_leads,   \* run_scan: the job's accumulator
    limit,                 \* yelp_search_leads: limit
    offset,                \* yelp_search_leads: offset of the next page
    leads,                 \* yelp_search_leads: all_leads, then run_scan: leads
    k,                     \* index of lead in the review loop
    i,                     \* run_scan: start of the next batch (0-based)
    evaluated_term_leads,  \* run_scan: rows of the term so far
    batch,                 \* ai_evaluate_batch: batch
    retry_count,           \* ai_evaluate_batch: retry_count
    evals,                 \* ai_evaluate_batch: evals
    evaluated_leads,       \* ai_evaluate_batch: evaluated_leads
    sorted_leads,          \* ai_evaluate_batch: sorted_leads
    final_output,          \* ai_evaluate_batch: the list returned
    page,                  \* ghost: businesses of the last listing answer
    lookups,               \* ghost: get_yelp_reviews calls of this term
    n_calls,               \* ghost: scoring calls made for this batch
    last_outcome,          \* ghost: answer kind of the last scoring call
    all_429,               \* ghost: every failed call of this batch was a 429
    sleeps,                \* ghost: time.sleep arguments of this batch
    handed,                \* ghost: batches handed to ai_evaluate_batch, this term
    term_log,              \* ghost: per term of the job, what was done
    sheet,                 \* ghost: the write_to_sheet call of this job
    job                    \* ghost: what was done for the row being processed

vars ==
    <<n_rows, control_row, pc, j, search_terms, t, all_evaluated_leads, limit, offset,
      leads, k, i, evaluated_term_leads, batch, retry_count, evals,
      evaluated_leads, sorted_leads, final_output, page, lookups, n_calls,
      last_outcome,
      all_429, sleeps, handed, term_log, sheet, job>>

jobVars == <<n_rows, control_row, j, search_terms, t, all_evaluated_leads>>

searchVars == <<limit, offset, leads, page, lookups>>

evalVars ==
    <<batch, retry_count, evals, evaluated_leads, sorted_leads, final_output,
      n_calls, last_outcome, all_429, sleeps>>

NoSheet == [name |-> << >>, data |-> << >>, result |-> "none"]

NoRow == Job(<< >>, << >>, "", {})

(* prev: how the row before this one ended *)
NoJob ==
    [row |-> 0, status |-> "pending", prev |-> "none", searched |-> FALSE,
     looked_up |-> FALSE, scored |-> FALSE, written |-> "no", reported |-> "no"]

NewJob(status) == [NoJob EXCEPT !.row = j, !.status = status, !.prev = job.status]

Init ==
    /\ n_rows = 0
    /\ control_row = NoRow
    /\ pc = "start"
    /\ j = 0
    /\ search_terms = << >>
    /\ t = 0
    /\ all_evaluated_leads = << >>
    /\ limit = 0
    /\ offset = 0
    /\ leads = << >>
    /\ k = 0
    /\ i = 0
    /\ evaluated_term_leads = << >>
    /\ batch = << >>
    /\ retry_count = 0
    /\ evals = << >>
    /\ evaluated_leads = << >>
    /\ sorted_leads = << >>
    /\ final_output = << >>
    /\ page = << >>
    /\ lookups = << >>
    /\ n_calls = 0
    /\ last_outcome = "none"
    /\ all_429 = TRUE
    /\ sleeps = << >>
    /\ handed = << >>
    /\ term_log = << >>
    /\ sheet = NoSheet
    /\ job = NoJob

(* locals of ai_evaluate_batch outside a call *)
EvalIdle ==
    /\ batch' = << >>
    /\ retry_count' = 0
    /\ evals' = << >>
    /\ evaluated_leads' = << >>
    /\ sorted_leads' = << >>
    /\ final_output' = << >>
    /\ n_calls' = 0
    /\ last_outcome' = "none"
    /\ all_429' = TRUE
    /\ sleeps' = << >>

(* locals of one term of run_scan outside that term *)
TermIdle ==
    /\ limit' = 0
    /\ offset' = 0
    /\ leads' = << >>
    /\ page' = << >>
    /\ lookups' = << >>
    /\ k' = 0
    /\ i' = 0
    /\ evaluated_term_leads' = << >>
    /\ handed' = << >>
    /\ EvalIdle

(* ------------------------------------------------------------------ *)
(* run_scan: the control sheet and the job loop                        *)
(* ------------------------------------------------------------------ *)
ReadControlFails ==
    /\ pc = "start"
    /\ pc' = "done"
    /\ UNCHANGED <<jobVars, searchVars, k, i, evaluated_term_leads, evalVars,
                   handed, term_log, sheet, job>>

(* control_rows = control_data[1:], of any length up to MaxJobs; the     *)
(* content of a row is drawn when the loop reaches it                     *)
ReadControl ==
    /\ pc = "start"
    /\ n_rows' \in 1..MaxJobs
    /\ pc' = "job"
    /\ j' = 1
    /\ UNCHANGED <<control_row, search_terms, t, all_evaluated_leads, searchVars,
                   k, i, evaluated_term_leads, evalVars, handed, term_log, sheet,
                   job>>

Finish ==
    /\ pc = "job"
    /\ j > n_rows
    /\ pc' = "done"
    /\ UNCHANGED <<jobVars, searchVars, k, i, evaluated_term_leads, evalVars,
                   handed, term_log, sheet, job>>

SkipJob ==
    /\ pc = "job"
    /\ j <= n_rows
    /\ \E row \in JobKinds :
          /\ ~IsActive(row)
          /\ control_row' = row
    /\ j' = j + 1
    /\ job' = NewJob("skipped")
    /\ UNCHANGED <<n_rows, pc, search_terms, t, all_evaluated_leads, searchVars,
                   k, i, evaluated_term_leads, evalVars, handed, term_log, sheet>>

(* control_dict[key] raises KeyError, which nothing in run_scan catches *)
CrashJob ==
    /\ pc = "job"
    /\ j <= n_rows
    /\ \E row \in JobKinds :
          /\ IsActive(row)
          /\ row.missing \cap RequiredKeys # {}
          /\ control_row' = row
    /\ pc' = "crashed"
    /\ job' = NewJob("crashed")
    /\ UNCHANGED <<n_rows, j, search_terms, t, all_evaluated_leads, searchVars,
                   k, i, evaluated_term_leads, evalVars, handed, term_log, sheet>>

StartJob ==
    /\ pc = "job"
    /\ j <= n_rows
    /\ \E row \in JobKinds :
          /\ IsActive(row)
          /\ row.missing \cap RequiredKeys = {}
          /\ control_row' = row
          /\ search_terms' = SearchTerms(row.search_terms)
    /\ all_evaluated_leads' = << >>
    /\ t' = 1
    /\ pc' = "term"
    /\ term_log' = << >>
    /\ sheet' = NoSheet
    /\ job' = NewJob("processing")
    /\ UNCHANGED <<n_rows, j, searchVars, k, i, evaluated_term_leads, evalVars,
                   handed>>

(* ------------------------------------------------------------------ *)
(* run_scan: one search term                                           *)
(* ------------------------------------------------------------------ *)
BeginSearch ==
    /\ pc = "term"
    /\ t <= Len(search_terms)
    /\ limit' = SEARCH_LIMIT
    /\ offset' = 0
    /\ leads' = << >>
    /\ page' = << >>
    /\ lookups' = << >>
    /\ pc' = "yelp"
    /\ UNCHANGED <<jobVars, k, i, evaluated_term_leads, evalVars, handed,
                   term_log, sheet, job>>

(* one iteration of the paging loop of yelp_search_leads; the loop ends   *)
(* when range(0, limit, 50) is exhausted                                   *)
YelpPage ==
    /\ pc = "yelp"
    /\ offset < limit
    /\ \E businesses \in YelpPages(search_terms[t]) :
          /\ Len(businesses) <= Min(limit - offset, PAGE_CAP)
          /\ page' = businesses
          /\ leads' = AppendLeads(leads, businesses, search_terms[t])
    /\ offset' = offset + PAGE_CAP
    /\ pc' = IF offset + PAGE_CAP < limit THEN "yelp" ELSE "searched"
    /\ job' = [job EXCEPT !.searched = TRUE]
    /\ UNCHANGED <<jobVars, limit, lookups, k, i, evaluated_term_leads, evalVars, handed,
                   term_log, sheet>>

(* requests.exceptions.RequestException: break, return what was collected *)
YelpFails ==
    /\ pc = "yelp"
    /\ offset < limit
    /\ pc' = "searched"
    /\ job' = [job EXCEPT !.searched = TRUE]
    /\ UNCHANGED <<jobVars, searchVars, k, i, evaluated_term_leads, evalVars,
                   handed, term_log, sheet>>

TermEntry(n, nb, dropped) ==
    [term |-> search_terms[t], nleads |-> n, nbatches |-> nb, dropped |-> dropped]

NoLeads ==
    /\ pc = "searched"
    /\ leads = << >>
    /\ t' = t + 1
    /\ pc' = "term"
    /\ term_log' = Append(term_log, TermEntry(0, 0, {}))
    /\ TermIdle
    /\ UNCHANGED <<n_rows, control_row, j, search_terms, all_evaluated_leads, sheet,
                   job>>

BeginReviews ==
    /\ pc = "searched"
    /\ leads # << >>
    /\ k' = 1
    /\ pc' = "reviews"
    /\ UNCHANGED <<jobVars, searchVars, i, evaluated_term_leads, evalVars, handed,
                   term_log, sheet, job>>

(* after the review loop: evaluated_term_leads = [] and the batch loop *)
AfterLead ==
    IF k + 1 > Len(leads)
    THEN /\ pc' = "batch"
         /\ i' = 0
         /\ evaluated_term_leads' = << >>
         /\ handed' = << >>
         /\ term_log' = Append(term_log, TermEntry(Len(leads), 0, {}))
    ELSE /\ pc' = "reviews"
         /\ UNCHANGED <<i, evaluated_term_leads, handed, term_log>>

(* a failed lookup that ends the review loop of the term *)
LookupReviewsAborting ==
    /\ pc = "reviews"
    /\ k <= Len(leads)
    /\ leads[k].business_id # << >>
    /\ \E outcome \in LookupAnswers(leads[k], Len(leads)) :
          /\ leads' = [leads EXCEPT ![k].reviews = LookupResult(outcome)]
          /\ lookups' = Append(lookups, [pos |-> leads[k].pos, outcome |-> outcome])
          /\ k' = IF outcome \in {"ok", "ok_empty"} THEN k + 1 ELSE Len(leads) + 1
    /\ IF k' > Len(leads)
       THEN /\ pc' = "batch"
            /\ i' = 0
            /\ evaluated_term_leads' = << >>
            /\ handed' = << >>
            /\ term_log' = Append(term_log, TermEntry(Len(leads), 0, {}))
       ELSE /\ pc' = "reviews"
            /\ UNCHANGED <<i, evaluated_term_leads, handed, term_log>>
    /\ job' = [job EXCEPT !.looked_up = TRUE]
    /\ UNCHANGED <<jobVars, limit, offset, page, evalVars, sheet>>

(* get_yelp_reviews: every failure is caught and yields [] *)
LookupReviews ==
    /\ pc = "reviews"
    /\ k <= Len(leads)
    /\ leads[k].business_id # << >>
    /\ \E outcome \in LookupAnswers(leads[k], Len(leads)) :
          /\ leads' = [leads EXCEPT ![k].reviews = LookupResult(outcome)]
          /\ lookups' = Append(lookups, [pos |-> leads[k].pos, outcome |-> outcome])
    /\ k' = k + 1
    /\ AfterLead
    /\ job' = [job EXCEPT !.looked_up = TRUE]
    /\ UNCHANGED <<jobVars, limit, offset, page, evalVars, sheet>>

(* the lookup made without the test of the business id *)
LookupWithoutId ==
    /\ pc = "reviews"
    /\ k <= Len(leads)
    /\ leads[k].business_id = << >>
    /\ \E outcome \in {"404", "conn_error"} :
          /\ leads' = [leads EXCEPT ![k].reviews = LookupResult(outcome)]
          /\ lookups' = Append(lookups, [pos |-> leads[k].pos, outcome |-> outcome])
    /\ k' = k + 1
    /\ AfterLead
    /\ UNCHANGED <<jobVars, limit, offset, page, evalVars, sheet, job>>

(* if business_id: is false for None and for '' *)
SkipLookup ==
    /\ pc = "reviews"
    /\ k <= Len(leads)
    /\ leads[k].business_id = << >>
    /\ k' = k + 1
    /\ AfterLead
    /\ UNCHANGED <<jobVars, searchVars, evalVars, sheet, job>>

(* ------------------------------------------------------------------ *)
(* run_scan: the batch loop, and ai_evaluate_batch                     *)
(* ------------------------------------------------------------------ *)
(* the slice one too long: leads[i:i + BATCH_SIZE + 1] *)
BeginBatchOverlapping ==
    /\ pc = "batch"
    /\ i < Len(leads)
    /\ batch' = SubSeq(leads, i + 1, Min(i + BATCH_SIZE + 1, Len(leads)))
    /\ handed' = Append(handed, batch')
    /\ retry_count' = 0
    /\ evals' = << >>
    /\ evaluated_leads' = << >>
    /\ sorted_leads' = << >>
    /\ final_output' = << >>
    /\ n_calls' = 0
    /\ last_outcome' = "none"
    /\ all_429' = TRUE
    /\ sleeps' = << >>
    /\ pc' = "score"
    /\ UNCHANGED <<jobVars, searchVars, k, i, evaluated_term_leads, term_log,
                   sheet, job>>

BeginBatch ==
    /\ pc = "batch"
    /\ i < Len(leads)
    /\ batch' = SubSeq(leads, i + 1, Min(i + BATCH_SIZE, Len(leads)))
    /\ handed' = Append(handed, batch')
    /\ retry_count' = 0
    /\ evals' = << >>
    /\ evaluated_leads' = << >>
    /\ sorted_leads' = << >>
    /\ final_output' = << >>
    /\ n_calls' = 0
    /\ last_outcome' = "none"
    /\ all_429' = TRUE
    /\ sleeps' = << >>
    /\ pc' = "score"
    /\ UNCHANGED <<jobVars, searchVars, k, i, evaluated_term_leads, term_log,
                   sheet, job>>

(* a dropped batch that also discards the rows of the term so far *)
ReturnBatchLosing(rows, dropped) ==
    /\ final_output' = rows
    /\ evaluated_term_leads' = IF dropped THEN << >> ELSE evaluated_term_leads \o rows
    /\ i' = i + BATCH_SIZE
    /\ pc' = "batch"
    /\ term_log' =
          [term_log EXCEPT ![Len(term_log)].nbatches = @ + 1,
                           ![Len(term_log)].dropped =
                                IF dropped THEN @ \cup {i} ELSE @]

(* ai_evaluate_batch returns rows; run_scan extends and steps the loop *)
ReturnBatch(rows, dropped) ==
    /\ final_output' = rows
    /\ evaluated_term_leads' = evaluated_term_leads \o rows
    /\ i' = i + BATCH_SIZE
    /\ pc' = "batch"
    /\ term_log' =
          [term_log EXCEPT ![Len(term_log)].nbatches = @ + 1,
                           ![Len(term_log)].dropped =
                                IF dropped THEN @ \cup {i} ELSE @]

ScoreCall(outcome) ==
    /\ pc = "score"
    /\ retry_count < max_retries
    /\ n_calls' = n_calls + 1
    /\ last_outcome' = outcome
    /\ job' = [job EXCEPT !.scored = TRUE]

(* the results written into the candidates themselves: no .copy() *)
ScoreOkInPlace ==
    /\ ScoreCall("ok")
    /\ \E response \in Responses(Len(batch)) :
          /\ evals' = response
          /\ evaluated_leads' = EvaluatedLeads(batch, response)
          /\ sorted_leads' = SortedLeads(evaluated_leads')
          /\ ReturnBatch(FinalOutput(sorted_leads'), FALSE)
          /\ batch' = [x \in 1..Len(batch) |->
                         IF x <= Len(evaluated_leads') THEN evaluated_leads'[x]
                                                       ELSE batch[x]]
          /\ leads' = [y \in 1..Len(leads) |->
                         IF y > i /\ y <= i + Len(evaluated_leads')
                         THEN evaluated_leads'[y - i] ELSE leads[y]]
    /\ UNCHANGED <<jobVars, limit, offset, page, lookups, k, retry_count, all_429,
                   sleeps, handed, sheet>>

(* the response parses: map, sort, filter, return *)
ScoreOk ==
    /\ ScoreCall("ok")
    /\ \E response \in Responses(Len(batch)) :
          /\ evals' = response
          /\ evaluated_leads' = EvaluatedLeads(batch, response)
          /\ sorted_leads' = SortedLeads(evaluated_leads')
          /\ ReturnBatch(FinalOutput(sorted_leads'), FALSE)
    /\ UNCHANGED <<jobVars, searchVars, k, batch, retry_count, all_429, sleeps,
                   handed, sheet>>

(* the retry loop with the ceiling one too low: gives up after 4 calls *)
ScoreRetryGivesUpEarly ==
    /\ \E failure \in RetryableFailures :
          /\ ScoreCall(failure)
          /\ all_429' = (all_429 /\ failure = "http_429")
    /\ retry_count' = retry_count + 1
    /\ sleeps' = Append(sleeps, Pow2(retry_count'))
    /\ IF retry_count' < max_retries - 1
       THEN /\ pc' = "score"
            /\ UNCHANGED <<final_output, evaluated_term_leads, i, term_log>>
       ELSE ReturnBatch(<< >>, TRUE)
    /\ UNCHANGED <<jobVars, searchVars, k, batch, evals, evaluated_leads,
                   sorted_leads, handed, sheet>>

(* a malformed payload retried without counting the attempt *)
ScoreRetryUncounted ==
    /\ \E failure \in RetryableFailures :
          /\ ScoreCall(failure)
          /\ all_429' = (all_429 /\ failure = "http_429")
          /\ retry_count' = IF failure = "malformed_json" THEN retry_count
                                                          ELSE retry_count + 1
    /\ sleeps' = Append(sleeps, Pow2(retry_count'))
    /\ IF retry_count' < max_retries
       THEN /\ pc' = "score"
            /\ UNCHANGED <<final_output, evaluated_term_leads, i, term_log>>
       ELSE ReturnBatch(<< >>, TRUE)
    /\ UNCHANGED <<jobVars, searchVars, k, batch, evals, evaluated_leads,
                   sorted_leads, handed, sheet>>

(* missing candidates/parts, 429, 5xx, RequestException, JSONDecodeError:  *)
(* retry_count += 1; time.sleep(2 ** retry_count); the while test; the     *)
(* else clause of the while returns []                                     *)
ScoreRetry ==
    /\ \E failure \in RetryableFailures :
          /\ ScoreCall(failure)
          /\ all_429' = (all_429 /\ failure = "http_429")
    /\ retry_count' = retry_count + 1
    /\ sleeps' = Append(sleeps, Pow2(retry_count'))
    /\ IF retry_count' < max_retries
       THEN /\ pc' = "score"
            /\ UNCHANGED <<final_output, evaluated_term_leads, i, term_log>>
       ELSE ReturnBatch(<< >>, TRUE)
    /\ UNCHANGED <<jobVars, searchVars, k, batch, evals, evaluated_leads,
                   sorted_leads, handed, sheet>>

(* a 4xx handled like a 5xx: counted, slept on and retried *)
ScoreClientErrorRetried ==
    /\ ScoreCall("http_4xx")
    /\ retry_count' = retry_count + 1
    /\ sleeps' = Append(sleeps, Pow2(retry_count'))
    /\ IF retry_count' < max_retries
       THEN /\ pc' = "score"
            /\ UNCHANGED <<final_output, evaluated_term_leads, i, term_log>>
       ELSE ReturnBatch(<< >>, TRUE)
    /\ UNCHANGED <<jobVars, searchVars, k, batch, evals, evaluated_leads,
                   sorted_leads, all_429, handed, sheet>>

(* HTTP 4xx other than 429: return [] *)
ScoreClientError ==
    /\ ScoreCall("http_4xx")
    /\ ReturnBatch(<< >>, TRUE)
    /\ UNCHANGED <<jobVars, searchVars, k, batch, retry_count, evals,
                   evaluated_leads, sorted_leads, all_429, sleeps, handed, sheet>>

(* any other exception inside the outer try: return [] *)
ScoreUnexpected ==
    /\ ScoreCall("unexpected")
    /\ ReturnBatch(<< >>, TRUE)
    /\ UNCHANGED <<jobVars, searchVars, k, batch, retry_count, evals,
                   evaluated_leads, sorted_leads, all_429, sleeps, handed, sheet>>

(* the rows of the term put in front of the accumulator *)
EndTermPrepending ==
    /\ pc = "batch"
    /\ i >= Len(leads)
    /\ all_evaluated_leads' = evaluated_term_leads \o all_evaluated_leads
    /\ t' = t + 1
    /\ pc' = "term"
    /\ TermIdle
    /\ UNCHANGED <<n_rows, control_row, j, search_terms, term_log, sheet, job>>

EndTerm ==
    /\ pc = "batch"
    /\ i >= Len(leads)
    /\ all_evaluated_leads' = all_evaluated_leads \o evaluated_term_leads
    /\ t' = t + 1
    /\ pc' = "term"
    /\ TermIdle
    /\ UNCHANGED <<n_rows, control_row, j, search_terms, term_log, sheet, job>>

(* ------------------------------------------------------------------ *)
(* run_scan: the end of a job                                          *)
(* ------------------------------------------------------------------ *)
NoOutput ==
    /\ pc = "term"
    /\ t > Len(search_terms)
    /\ all_evaluated_leads = << >>
    /\ j' = j + 1
    /\ pc' = "job"
    /\ job' = [job EXCEPT !.status = "no-candidates"]
    /\ UNCHANGED <<n_rows, control_row, search_terms, t, all_evaluated_leads, searchVars,
                   k, i, evaluated_term_leads, evalVars, handed, term_log, sheet>>

OutputSheetName(row) == <<row.prefix, "_RankedLeads">>

(* the write without the test for an empty accumulator *)
WriteSheetUnguarded ==
    /\ pc = "term"
    /\ t > Len(search_terms)
    /\ \E result \in {"ok", "failed"} :
          /\ sheet' = [name |-> OutputSheetName(control_row),
                       data |-> all_evaluated_leads, result |-> result]
          /\ job' = [job EXCEPT !.written = result]
    /\ pc' = "update"
    /\ UNCHANGED <<jobVars, searchVars, k, i, evaluated_term_leads, evalVars,
                   handed, term_log>>

(* write_to_sheet catches every failure and returns *)
WriteSheet ==
    /\ pc = "term"
    /\ t > Len(search_terms)
    /\ all_evaluated_leads # << >>
    /\ \E result \in {"ok", "failed"} :
          /\ sheet' = [name |-> OutputSheetName(control_row),
                       data |-> all_evaluated_leads, result |-> result]
          /\ job' = [job EXCEPT !.written = result]
    /\ pc' = "update"
    /\ UNCHANGED <<jobVars, searchVars, k, i, evaluated_term_leads, evalVars,
                   handed, term_log>>

(* update_control_sheet_status(sheet_prefix) catches every failure and   *)
(* returns                                                                *)
UpdateStatus ==
    /\ pc = "update"
    /\ \E result \in {"ok", "failed"} :
          job' = [job EXCEPT !.status = "finished", !.reported = result]
    /\ j' = j + 1
    /\ pc' = "job"
    /\ UNCHANGED <<n_rows, control_row, search_terms, t, all_evaluated_leads,
                   searchVars, k, i, evaluated_term_leads, evalVars, handed,
                   term_log, sheet>>

Next ==
    \/ ReadControlFails
    \/ ReadControl
    \/ Finish
    \/ SkipJob
    \/ CrashJob
    \/ StartJob
    \/ BeginSearch
    \/ YelpPage
    \/ YelpFails
    \/ NoLeads
    \/ BeginReviews
    \/ LookupReviews
    \/ SkipLookup
    \/ BeginBatch
    \/ ScoreOk
    \/ ScoreRetry
    \/ ScoreClientError
    \/ ScoreUnexpected
    \/ EndTerm
    \/ NoOutput
    \/ WriteSheet
    \/ UpdateStatus

Spec == Init /\ [][Next]_vars

(* ------------------------------------------------------------------ *)
(* ai_evaluate_batch lines 319-352 alone, on every batch of up to      *)
(* MaxUnitBatch candidates and every response of up to one more object *)
(* ------------------------------------------------------------------ *)
UnitEvals == {H90, H10, H5, M90, EvalEmpty}

UnitLead(x) ==
    [AppendLeads(<< >>, PageBig(x), <<"a">>)[x] EXCEPT !.reviews = <<"r1">>]

UnitBatches == {[x \in 1..n |-> UnitLead(x)] : n \in 0..MaxUnitBatch}

InitRank ==
    /\ n_rows = 0
    /\ control_row = NoRow
    /\ pc = "parsed"
    /\ j = 0
    /\ search_terms = << >>
    /\ t = 0
    /\ all_evaluated_leads = << >>
    /\ limit = 0
    /\ offset = 0
    /\ leads = << >>
    /\ k = 0
    /\ i = 0
    /\ evaluated_term_leads = << >>
    /\ batch \in UnitBatches
    /\ retry_count = 0
    /\ evals \in SeqsUpTo(UnitEvals, MaxUnitBatch + 1)
    /\ evaluated_leads = << >>
    /\ sorted_leads = << >>
    /\ final_output = << >>
    /\ page = << >>
    /\ lookups = << >>
    /\ n_calls = 1
    /\ last_outcome = "none"
    /\ all_429 = TRUE
    /\ sleeps = << >>
    /\ handed = << >>
    /\ term_log = << >>
    /\ sheet = NoSheet
    /\ job = NoJob

MapSortFilter ==
    /\ pc = "parsed"
    /\ evaluated_leads' = EvaluatedLeads(batch, evals)
    /\ sorted_leads' = SortedLeads(evaluated_leads')
    /\ final_output' = FinalOutput(sorted_leads')
    /\ last_outcome' = "ok"
    /\ pc' = "returned"
    /\ UNCHANGED <<jobVars, searchVars, k, i, evaluated_term_leads, batch,
                   retry_count, evals, n_calls, all_429, sleeps, handed, term_log,
                   sheet, job>>

NextRank == MapSortFilter

SpecRank == InitRank /\ [][NextRank]_vars

(* ------------------------------------------------------------------ *)
(* The batch loop of run_scan (lines 403-417) alone, for a term with   *)
(* any number of kept leads up to MaxUnitLeads                         *)
(* ------------------------------------------------------------------ *)
MaxUnitLeads == 41

UnitJob == Job(<<FlagActive>>, CellOne, "PA", {})

InitBatch ==
    /\ n_rows = 1
    /\ control_row = UnitJob
    /\ pc = "batch"
    /\ j = 1
    /\ search_terms = SearchTerms(CellOne)
    /\ t = 1
    /\ all_evaluated_leads = << >>
    /\ limit = SEARCH_LIMIT
    /\ offset = PAGE_CAP
    /\ \E n \in 1..MaxUnitLeads :
          /\ leads = [x \in 1..n |-> UnitLead(x)]
          /\ page = PageBig(n)
          /\ lookups = [x \in 1..n |-> [pos |-> x, outcome |-> "ok"]]
          /\ k = n + 1
          /\ term_log = <<[term |-> <<"a">>, nleads |-> n, nbatches |-> 0,
                           dropped |-> {}]>>
    /\ i = 0
    /\ evaluated_term_leads = << >>
    /\ batch = << >>
    /\ retry_count = 0
    /\ evals = << >>
    /\ evaluated_leads = << >>
    /\ sorted_leads = << >>
    /\ final_output = << >>
    /\ n_calls = 0
    /\ last_outcome = "none"
    /\ all_429 = TRUE
    /\ sleeps = << >>
    /\ handed = << >>
    /\ sheet = NoSheet
    /\ job = [NoJob EXCEPT !.row = 1, !.status = "processing", !.searched = TRUE,
                             !.looked_up = TRUE]

NextBatch ==
    \/ BeginBatch
    \/ ScoreOk
    \/ ScoreRetry
    \/ ScoreClientError
    \/ ScoreUnexpected

SpecBatch == InitBatch /\ [][NextBatch]_vars

(* ------------------------------------------------------------------ *)
(* Properties                                                          *)
(* ------------------------------------------------------------------ *)
RowScores(rows) == [x \in 1..Len(rows) |-> RowScore(rows[x])]

NonIncreasing(scores) ==
    \A x, y \in 1..Len(scores) : x < y => scores[x] >= scores[y]

(* the batch loop of the term is over: every batch was handed and returned *)
TermBatched == pc = "batch" /\ i >= Len(leads)

(* the term loop of the job is over: the job's output is decided *)
JobEvaluated == pc = "term" /\ t > Len(search_terms)

(* C1: the rows of one search term, over all its batches, are in          *)
(* non-increasing score order, in the term's rows and in the job's        *)
(* output.                                                                *)
C1_TermRowsScoreSorted ==
    /\ NonIncreasing(RowScores(evaluated_term_leads))
    /\ \A x, y \in 1..Len(all_evaluated_leads) :
          (x < y /\ all_evaluated_leads[x].business_type
                      = all_evaluated_leads[y].business_type)
             => RowScore(all_evaluated_leads[x]) >= RowScore(all_evaluated_leads[y])

(* a scoring response has been parsed and mapped, sorted and filtered *)
Mapped == last_outcome = "ok"

PosOf(seq) == [x \in 1..Len(seq) |-> seq[x].pos]

(* index of the element of seq with ghost position p *)
IndexOfPos(seq, p) == CHOOSE x \in 1..Len(seq) : seq[x].pos = p

(* C5: a response of length M on a batch of N candidates gives exactly    *)
(* min(M, N) evaluated candidates; the x-th carries the x-th response     *)
(* object's likelihood, score and reasoning on the x-th candidate of the  *)
(* batch; candidates at positions beyond M are absent from the rows the   *)
(* batch returns.                                                         *)
C5_PositionalMapping ==
    Mapped =>
        LET N == Len(batch)
            M == Len(evals)
        IN  /\ Len(evaluated_leads) = (IF M < N THEN M ELSE N)
            /\ \A x \in 1..Len(evaluated_leads) :
                  /\ evaluated_leads[x].pos = batch[x].pos
                  /\ evaluated_leads[x].name = batch[x].name
                  /\ evaluated_leads[x].business_id = batch[x].business_id
                  /\ evals[x].Likelihood # << >> =>
                        evaluated_leads[x].Likelihood = evals[x].Likelihood[1]
                  /\ evals[x].Score # << >> =>
                        evaluated_leads[x].Score = evals[x].Score[1]
                  /\ evals[x].Reasoning # << >> =>
                        evaluated_leads[x].Reasoning = evals[x].Reasoning[1]
            /\ \A y \in 1..Len(final_output) :
                  \E x \in 1..N : x <= M /\ final_output[y].pos = batch[x].pos

(* C5 witness: a response shorter than the batch was mapped, with at      *)
(* least two objects that differ                                          *)
C5_Witness ==
    /\ Mapped
    /\ Len(evals) < Len(batch)
    /\ Len(evaluated_leads) >= 2
    /\ evaluated_leads[1].Score # evaluated_leads[2].Score

(* C6: the ranking is by score descending and stable, and with high-only  *)
(* mode a candidate is emitted iff its likelihood is exactly "High", the  *)
(* survivors keeping the order the ranking gave them; scores              *)
(* [10, 90, 90, 5] come out as [90(a), 90(b), 10, 5].                     *)
C6_StableRankAndTierFilter ==
    Mapped =>
        /\ Len(sorted_leads) = Len(evaluated_leads)
        /\ \A x \in 1..Len(evaluated_leads) :
              \E y \in 1..Len(sorted_leads) : sorted_leads[y] = evaluated_leads[x]
        /\ \A x, y \in 1..Len(sorted_leads) :
              x < y =>
                 /\ sorted_leads[x].Score >= sorted_leads[y].Score
                 /\ sorted_leads[x].Score = sorted_leads[y].Score =>
                       sorted_leads[x].pos < sorted_leads[y].pos
        /\ FILTER_HIGH_ONLY =>
              /\ \A x \in 1..Len(sorted_leads) :
                    (sorted_leads[x].Likelihood = "High")
                       <=> (\E y \in 1..Len(final_output) :
                               final_output[y].pos = sorted_leads[x].pos)
              /\ Len(final_output) =
                    Cardinality({x \in 1..Len(sorted_leads) :
                                    sorted_leads[x].Likelihood = "High"})
              /\ \A x, y \in 1..Len(final_output) :
                    x < y =>
                       IndexOfPos(sorted_leads, final_output[x].pos)
                          < IndexOfPos(sorted_leads, final_output[y].pos)
              /\ \A y \in 1..Len(final_output) :
                    /\ final_output[y].likelihood = "High"
                    /\ RowScore(final_output[y]) =
                          sorted_leads[IndexOfPos(sorted_leads, final_output[y].pos)].Score
        /\ [x \in 1..Len(evaluated_leads) |-> evaluated_leads[x].Score]
              = <<10, 90, 90, 5>>
           => PosOf(sorted_leads)
                 = <<batch[2].pos, batch[3].pos, batch[1].pos, batch[4].pos>>

(* C6 witness: scores [10, 90, 90, 5] were ranked, the first 90 being a    *)
(* Medium candidate that the filter removed                               *)
C6_Witness ==
    /\ Mapped
    /\ [x \in 1..Len(evaluated_leads) |-> evaluated_leads[x].Score]
          = <<10, 90, 90, 5>>
    /\ sorted_leads[1].Likelihood = "Medium"
    /\ PosOf(final_output) = <<batch[3].pos, batch[1].pos, batch[4].pos>>

(* ai_evaluate_batch has returned to the batch loop *)
Returned == pc = "batch" /\ last_outcome # "none"

HighCount(response, n) ==
    Cardinality({x \in 1..Min(Len(response), n) : response[x].Likelihood = <<"High">>})

(* C2: after 429 on the first four calls and success on the fifth the      *)
(* evaluator has made exactly 5 calls and returns the rows of that         *)
(* response; with 429 on every call it returns the empty list after        *)
(* exactly 5 calls; a batch never sees a 6th call.                         *)
C2_RateLimitRetry ==
    /\ n_calls <= 5
    /\ (all_429 /\ retry_count = 4 /\ last_outcome = "ok") =>
          /\ Returned
          /\ n_calls = 5
          /\ Len(final_output) = HighCount(evals, Len(batch))
          /\ \A y \in 1..Len(final_output) :
                \E x \in 1..Len(batch) :
                   /\ final_output[y].pos = batch[x].pos
                   /\ RowScore(final_output[y]) = Get(evals[x].Score, 0)
    /\ (all_429 /\ last_outcome = "http_429") =>
          /\ n_calls = retry_count
          /\ Returned <=> n_calls = 5
          /\ Returned => final_output = << >>

(* C2 witness: four 429s, then a response that yields rows *)
C2_Witness ==
    /\ all_429
    /\ retry_count = 4
    /\ last_outcome = "ok"
    /\ n_calls = 5
    /\ final_output # << >>

(* C3: a 4xx other than 429, at any attempt, ends the batch at once: the   *)
(* evaluator has returned the empty list, no sleep followed that call and  *)
(* no call follows it.                                                     *)
C3_ClientErrorFailsFast ==
    last_outcome = "http_4xx" =>
        /\ Returned
        /\ final_output = << >>
        /\ retry_count = n_calls - 1
        /\ Len(sleeps) = n_calls - 1
        /\ (i - BATCH_SIZE) \in term_log[Len(term_log)].dropped

(* C3 witness: the third call of a batch answered a 4xx *)
C3_Witness ==
    /\ last_outcome = "http_4xx"
    /\ n_calls = 3
    /\ Len(sleeps) = 2

(* start of the batch the candidate at position pos belongs to *)
BatchStart(pos) == ((pos - 1) \div BATCH_SIZE) * BATCH_SIZE

CeilDiv(n, d) == (n + d - 1) \div d

LogEntryOf(term) == CHOOSE e \in {term_log[x] : x \in 1..Len(term_log)} : e.term = term

NoRowOfDroppedBatch(rows) ==
    \A y \in 1..Len(rows) :
        BatchStart(rows[y].pos) \notin LogEntryOf(rows[y].business_type).dropped

(* C4: a dropped batch (ceiling exhausted, permanent 4xx) leaves the rows  *)
(* gathered so far unchanged and the run at the next batch of the same     *)
(* term; when the job's terms are over every term was searched and every   *)
(* batch of every term was handed to the evaluator; no candidate of a      *)
(* dropped batch is among the job's rows.                                  *)
C4_DroppedBatchDoesNotAbort ==
    /\ [][(pc = "score" /\ pc' = "batch" /\ last_outcome' # "ok") =>
             /\ evaluated_term_leads' = evaluated_term_leads
             /\ all_evaluated_leads' = all_evaluated_leads
             /\ leads' = leads
             /\ i' = i + BATCH_SIZE
             /\ t' = t
             /\ j' = j]_vars
    /\ [](JobEvaluated =>
             /\ Len(term_log) = Len(search_terms)
             /\ \A x \in 1..Len(term_log) :
                   /\ term_log[x].term = search_terms[x]
                   /\ term_log[x].nbatches = CeilDiv(term_log[x].nleads, BATCH_SIZE))
    /\ [](pc \in {"batch", "score"} => NoRowOfDroppedBatch(evaluated_term_leads))
    /\ [](pc \in {"term", "yelp", "searched", "reviews", "batch", "score", "update"}
             => NoRowOfDroppedBatch(all_evaluated_leads))
    /\ [](pc = "crashed" => job.status = "crashed")

(* C4 witness: the first batch of term "a" was dropped, its second batch   *)
(* and term "b" were evaluated and gave rows                               *)
C4_Witness ==
    /\ JobEvaluated
    /\ Len(term_log) = 2
    /\ term_log[1].dropped = {0}
    /\ term_log[1].nbatches = 2
    /\ \E y \in 1..Len(all_evaluated_leads) :
          all_evaluated_leads[y].business_type = <<"a">>
    /\ \E y \in 1..Len(all_evaluated_leads) :
          all_evaluated_leads[y].business_type = <<"b">>

(* the filter as the claim states it, on the raw record *)
Kept(business) ==
    /\ business.review_count # << >>
    /\ business.rating # << >>
    /\ ~(business.review_count[1] < 3 \/ business.rating[1] < 30)

KeptIndexes(businesses) == {x \in 1..Len(businesses) : Kept(businesses[x])}

IndexOfName(businesses, name) ==
    CHOOSE x \in 1..Len(businesses) : businesses[x].name = name

(* C7: of the businesses of a listing answer exactly those with at least   *)
(* 3 reviews and a rating of at least 3.0 become leads, in the order of    *)
(* the answer; a record with a missing rating or review count is           *)
(* rejected; only leads are handed to review lookup and scoring.           *)
C7_ListingFilter ==
    pc \in {"searched", "reviews", "batch", "score"} =>
        /\ Len(leads) = Cardinality(KeptIndexes(page))
        /\ \A x \in 1..Len(page) :
              Kept(page[x]) <=> (\E p \in 1..Len(leads) : leads[p].name = page[x].name)
        /\ \A p, q \in 1..Len(leads) :
              p < q => IndexOfName(page, leads[p].name) < IndexOfName(page, leads[q].name)
        /\ \A p \in 1..Len(leads) :
              LET b == page[IndexOfName(page, leads[p].name)]
              IN  /\ leads[p].rating = b.rating[1]
                  /\ leads[p].review_count = b.review_count[1]
                  /\ leads[p].business_id = b.id
        /\ k <= Len(leads) + 1
        /\ \A x \in 1..Len(handed) : \A y \in 1..Len(handed[x]) :
              \E z \in KeptIndexes(page) : page[z].name = handed[x][y].name
        /\ \A y \in 1..Len(evaluated_term_leads) :
              \E z \in KeptIndexes(page) : page[z].name = evaluated_term_leads[y].name

(* C7 witness: the answer with a record at exactly 3 reviews and 3.0, one  *)
(* at 2.9, one without rating and one with 2 reviews was filtered and the  *)
(* kept leads reached scoring                                              *)
C7_Witness ==
    /\ pc = "score"
    /\ page = PageMixed
    /\ Len(leads) = 2
    /\ leads[1].rating = 30
    /\ leads[1].review_count = 3

RECURSIVE Concat(_)
Concat(seqs) == IF seqs = << >> THEN << >> ELSE Head(seqs) \o Concat(Tail(seqs))

RECURSIVE SumLen(_)
SumLen(seqs) == IF seqs = << >> THEN 0 ELSE Len(Head(seqs)) + SumLen(Tail(seqs))

(* C8: the batches handed to the evaluator, concatenated in the order      *)
(* they are handed, are a prefix of the term's leads and, once the loop    *)
(* is over, the leads exactly; their lengths sum to the number of leads;   *)
(* every batch but the last has BATCH_SIZE candidates, none is empty and   *)
(* none is longer.                                                         *)
C8_BatchPartition ==
    pc \in {"batch", "score"} =>
        /\ Concat(handed) = SubSeq(leads, 1, SumLen(handed))
        /\ \A x \in 1..Len(handed) :
              /\ Len(handed[x]) >= 1
              /\ Len(handed[x]) <= BATCH_SIZE
              /\ x < Len(handed) => Len(handed[x]) = BATCH_SIZE
        /\ pc = "score" => batch = handed[Len(handed)]
        /\ TermBatched =>
              /\ Concat(handed) = leads
              /\ SumLen(handed) = Len(leads)
              /\ term_log[Len(term_log)].nbatches = Len(handed)

(* C8 witness: 41 leads were handed as batches of 20, 20 and 1 *)
C8_Witness ==
    /\ TermBatched
    /\ Len(leads) = 2 * BATCH_SIZE + 1
    /\ Len(handed) = 3
    /\ Len(handed[3]) = 1

Decided == job.status # "pending"

Processed == job.status \notin {"pending", "skipped"}

Untouched ==
    /\ ~job.searched
    /\ ~job.looked_up
    /\ ~job.scored
    /\ job.written = "no"
    /\ job.reported = "no"

(* C9 as stated: a job is processed iff its flag, compared without regard  *)
(* to case, equals "active".                                               *)
C9_ProcessedIffEqualsActive ==
    Decided => (Processed <=> Lower(Get(control_row.status, << >>)) = ACTIVE)

(* C9 amended: a job is processed iff its flag, with leading and trailing  *)
(* whitespace removed and compared without regard to case, equals          *)
(* "active"; any other job, an empty or missing flag included, is          *)
(* skipped: no search, lookup, scoring, output or completion signal, and   *)
(* the run goes on to the next row.                                        *)
C9_ActiveFlagGate ==
    /\ Decided =>
          (Processed <=> Lower(Strip(Get(control_row.status, << >>))) = ACTIVE)
    /\ job.status = "skipped" =>
          /\ Untouched
          /\ j = job.row + 1
          /\ pc \in {"job", "done"}
          /\ pc = "done" => j > n_rows
    /\ ~Decided => Untouched

(* C9 witness: a paused job was skipped and the padded-flag job after it   *)
(* was processed to the end                                                *)
C9_Witness ==
    /\ job.row = 2
    /\ job.prev = "skipped"
    /\ control_row.status = <<FlagPadded>>
    /\ job.status = "finished"
    /\ job.searched

(* C10: when the terms of an active job are over, write_to_sheet is        *)
(* called with the sheet named by the job's prefix and the accumulator     *)
(* iff the accumulator is non-empty; with an empty accumulator nothing is  *)
(* written for the job and the run goes on to the next row.                *)
C10_OutputIffAccumulatorNonEmpty ==
    /\ pc = "update" =>
          /\ all_evaluated_leads # << >>
          /\ sheet.name = <<control_row.prefix, "_RankedLeads">>
          /\ sheet.data = all_evaluated_leads
          /\ sheet.result \in {"ok", "failed"}
          /\ job.written = sheet.result
          /\ job.status = "processing"
    /\ job.status = "no-candidates" =>
          /\ all_evaluated_leads = << >>
          /\ sheet = NoSheet
          /\ job.written = "no"
          /\ job.reported = "no"
          /\ j = job.row + 1
          /\ pc \in {"job", "done"}
          /\ pc = "done" => j > n_rows
    /\ job.status = "finished" =>
          /\ all_evaluated_leads # << >>
          /\ sheet.data = all_evaluated_leads
          /\ job.written = sheet.result
          /\ job.written # "no"
          /\ j = job.row + 1
          /\ pc \in {"job", "done"}
    /\ job.written # "no" => job.status \in {"processing", "finished"}
    /\ job.status = "processing" => (job.written # "no" <=> pc = "update")

(* C10 witness: a job ended with an empty accumulator and no sheet, and    *)
(* the job after it wrote its rows                                         *)
C10_Witness ==
    /\ job.row = 2
    /\ job.prev = "no-candidates"
    /\ pc = "update"
    /\ sheet.result = "ok"
    /\ Len(sheet.data) >= 1

(* C11: the completion signal is reported for a job only after the job's  *)
(* output was emitted: a job with a reported completion has had its       *)
(* output written with success, and a skipped job or a job with an empty  *)
(* accumulator has none.                                                  *)
C11_CompletionOnlyAfterOutput ==
    /\ job.reported # "no" => job.written = "ok"
    /\ job.status \in {"skipped", "no-candidates"} => job.reported = "no"

(* C12: an active job whose row lacks a required field is skipped, and    *)
(* only it: nothing is done for it, and the run goes on to the next row   *)
(* and ends only after the last row.                                      *)
C12_ConfigErrorFatalToJobOnly ==
    (Decided /\ IsActive(control_row) /\ control_row.missing \cap RequiredKeys # {}) =>
        /\ Untouched
        /\ j = job.row + 1
        /\ pc \in {"job", "done"}
        /\ pc = "done" => j > n_rows

(* ------------------------------------------------------------------ *)
(* yelp_search_leads (lines 150-199) alone, called with a limit of up  *)
(* to MaxUnitPages pages                                               *)
(* ------------------------------------------------------------------ *)
MaxUnitPages == 3

UnitLimits ==
    {PAGE_CAP * n : n \in 1..MaxUnitPages}
        \cup {PAGE_CAP * n + 10 : n \in 0..(MaxUnitPages - 1)}

InitSearch ==
    /\ n_rows = 1
    /\ control_row = UnitJob
    /\ pc = "yelp"
    /\ j = 1
    /\ search_terms = <<UnitTerm>>
    /\ t = 1
    /\ all_evaluated_leads = << >>
    /\ limit \in UnitLimits
    /\ offset = 0
    /\ leads = << >>
    /\ k = 0
    /\ i = 0
    /\ evaluated_term_leads = << >>
    /\ batch = << >>
    /\ retry_count = 0
    /\ evals = << >>
    /\ evaluated_leads = << >>
    /\ sorted_leads = << >>
    /\ final_output = << >>
    /\ page = << >>
    /\ lookups = << >>
    /\ n_calls = 0
    /\ last_outcome = "none"
    /\ all_429 = TRUE
    /\ sleeps = << >>
    /\ handed = << >>
    /\ term_log = << >>
    /\ sheet = NoSheet
    /\ job = [NoJob EXCEPT !.row = 1, !.status = "processing"]

NextSearch ==
    \/ YelpPage
    \/ YelpFails

SpecSearch == InitSearch /\ [][NextSearch]_vars

(* what the page before the next one was asked for: min(limit - offset, 50) *)
PrevRequested == Min(limit - (offset - PAGE_CAP), PAGE_CAP)

(* C13: the paged calls have the offsets 0, 50, 100, ... below the limit,  *)
(* and a page is requested only after full pages: whenever the loop is    *)
(* about to request a further page, the page before it held as many       *)
(* businesses as were requested.                                          *)
C13_PagingStopsOnShortPage ==
    pc = "yelp" =>
        /\ offset % PAGE_CAP = 0
        /\ offset < limit
        /\ offset > 0 => Len(page) >= PrevRequested

FailedLookup(x) == lookups[x].outcome \in {"404", "429", "http_error", "conn_error"}

(* the review loop of the term is over *)
ReviewsDone == pc \in {"batch", "score"}

(* C14: a review lookup that fails (not found, rate limited, any other     *)
(* request failure) leaves the run inside the term with the candidate's    *)
(* reviews empty; the candidates after it are still looked up; and the     *)
(* candidate is in one of the batches handed to the evaluator, with its    *)
(* empty reviews.                                                          *)
C14_LookupFailureIsNotFatal ==
    /\ lookups # << >> => pc \in {"reviews", "batch", "score"}
    /\ \A x \in 1..Len(lookups) :
          FailedLookup(x) => leads[lookups[x].pos].reviews = << >>
    /\ ReviewsDone =>
          \A y \in 1..Len(leads) :
              leads[y].business_id # << >> =>
                  \E x \in 1..Len(lookups) : lookups[x].pos = y
    /\ TermBatched =>
          \A x \in 1..Len(lookups) :
              FailedLookup(x) =>
                  \E b \in 1..Len(handed) : \E z \in 1..Len(handed[b]) :
                      /\ handed[b][z].pos = lookups[x].pos
                      /\ handed[b][z].reviews = << >>

(* C14 witness: in a term of more than one batch a lookup was rate limited *)
(* and a later one not found, every lead was looked up, and the rate       *)
(* limited candidate has a row in the term's output                        *)
C14_Witness ==
    /\ TermBatched
    /\ Len(leads) > BATCH_SIZE
    /\ Len(lookups) = Len(leads)
    /\ \E x, y \in 1..Len(lookups) :
          /\ x < y
          /\ lookups[x].outcome = "429"
          /\ lookups[y].outcome = "404"
          /\ \E r \in 1..Len(evaluated_term_leads) :
                evaluated_term_leads[r].pos = lookups[x].pos

(* C15: no business id is carried by two rows of a job's output, in the    *)
(* accumulator and in what is handed to write_to_sheet.                    *)
C15_OutputDeduplicated ==
    \A rows \in {all_evaluated_leads, sheet.data} :
        \A x, y \in 1..Len(rows) :
            (x # y /\ rows[x].business_id # << >>) =>
                rows[x].business_id # rows[y].business_id

(* 1-based index of a term in the job's declared search terms *)
TermIndex(term) == CHOOSE x \in 1..Len(search_terms) : search_terms[x] = term

(* a step of run_scan from term t to term t + 1 *)
TermStep == pc \in {"searched", "batch"} /\ pc' = "term" /\ t' = t + 1

C16_Step ==
    /\ (TermStep /\ leads = << >>) =>
          /\ all_evaluated_leads' = all_evaluated_leads
          /\ lookups = << >>
          /\ handed = << >>
          /\ term_log' = Append(term_log, TermEntry(0, 0, {}))
          /\ job'.looked_up = job.looked_up
          /\ job'.scored = job.scored
    /\ (TermStep /\ leads # << >>) =>
          all_evaluated_leads' = all_evaluated_leads \o evaluated_term_leads
    /\ (pc \in {"term", "yelp", "searched", "reviews", "batch", "score"} /\ ~TermStep) =>
          all_evaluated_leads' = all_evaluated_leads

(* C16: the accumulator of a job grows only at the end of a term and by    *)
(* that term's rows, appended, so the rows of an earlier term precede the  *)
(* rows of a later one; a term without kept candidates is passed with no   *)
(* lookup, no batch and no scoring call, leaves the accumulator as it was  *)
(* and is followed by the next term.                                       *)
C16_TermGroupsInDeclaredOrder ==
    /\ [][C16_Step]_vars
    /\ [](\A x, y \in 1..Len(all_evaluated_leads) :
             x < y => TermIndex(all_evaluated_leads[x].business_type)
                         <= TermIndex(all_evaluated_leads[y].business_type))
    /\ [](\A x \in 1..Len(evaluated_term_leads) :
             evaluated_term_leads[x].business_type = search_terms[t])
    /\ [](\A x \in 1..Len(term_log) :
             /\ term_log[x].term = search_terms[x]
             /\ term_log[x].nleads = 0 => term_log[x].nbatches = 0)
    /\ []((pc = "searched" /\ leads = << >>) => lookups = << >> /\ n_calls = 0)

(* C16 witness: a job of two terms is over; the first had two candidates,  *)
(* scored High 80 and High 95, the second none; the output is the two      *)
(* rows, 95 before 80                                                      *)
C16_Witness ==
    /\ JobEvaluated
    /\ Len(search_terms) = 2
    /\ Len(term_log) = 2
    /\ term_log[1].nleads = 2
    /\ term_log[2].nleads = 0
    /\ RowScores(all_evaluated_leads) = <<95, 80>>
    /\ \A x \in 1..2 : all_evaluated_leads[x].business_type = search_terms[1]

(* C16 witness of the order: rows of both terms, the first term's first   *)
C16_BothTermsReached ==
    /\ JobEvaluated
    /\ Len(search_terms) = 2
    /\ \E x, y \in 1..Len(all_evaluated_leads) :
          /\ x < y
          /\ all_evaluated_leads[x].business_type = search_terms[1]
          /\ all_evaluated_leads[y].business_type = search_terms[2]

(* a step in which ai_evaluate_batch makes a scoring call *)
Called == pc = "score" /\ n_calls' = n_calls + 1

C17_Step ==
    /\ (Called /\ last_outcome' \in RetryableFailures) =>
          /\ retry_count < max_retries
          /\ retry_count' = retry_count + 1
          /\ pc' = "score" <=> retry_count' < max_retries
          /\ pc' # "score" => (pc' = "batch" /\ final_output' = << >>)
    /\ (Called /\ last_outcome' = "ok") =>
          /\ retry_count' = retry_count
          /\ pc' = "batch"
    /\ pc = "score" => Called

(* C17: whatever the kinds of the failures, every missing body, malformed  *)
(* payload, 5xx, 429 and connection failure adds one to the one counter    *)
(* retry_count and is followed by another call iff the counter is below    *)
(* 5; a parsed response ends the loop at once; so a batch sees at most 5   *)
(* scoring calls.                                                          *)
C17_SharedRetryCeiling ==
    /\ [][C17_Step]_vars
    /\ [](n_calls <= max_retries)
    /\ [](retry_count <= max_retries)
    /\ [](pc = "score" => n_calls = retry_count /\ retry_count < max_retries)
    /\ [](last_outcome \in RetryableFailures => n_calls = retry_count)
    /\ [](last_outcome = "ok" => n_calls = retry_count + 1)

(* C17 witness: a batch given up after 5 calls whose failures were not all *)
(* of one kind: the last a 429, an earlier one not                         *)
C17_Witness ==
    /\ Returned
    /\ n_calls = max_retries
    /\ retry_count = max_retries
    /\ last_outcome = "http_429"
    /\ ~all_429
    /\ final_output = << >>

(* C18: the x-th delay slept for a batch is 2^x seconds, one delay per     *)
(* retryable failure that is followed by another attempt: while the next   *)
(* attempt is pending there are as many delays as calls, and once the      *)
(* batch has returned, by success or by the 5th failure, there is one      *)
(* delay fewer than there were calls.                                      *)
C18_BackoffOnlyBetweenAttempts ==
    /\ \A x \in 1..Len(sleeps) : sleeps[x] = Pow2(x)
    /\ pc = "score" => Len(sleeps) = n_calls
    /\ Returned => Len(sleeps) = n_calls - 1

(* the lookups made for the lead at position y of the term *)
LookupsOf(y) == {x \in 1..Len(lookups) : lookups[x].pos = y}

(* C19 as stated: once the review loop of a term is over, every lead of    *)
(* the term, with or without a business id, has had exactly one lookup.    *)
C19_EveryLeadLookedUp ==
    ReviewsDone => \A y \in 1..Len(leads) : Cardinality(LookupsOf(y)) = 1

(* C19 amended: a lead with a business id is looked up exactly once and a  *)
(* lead whose business id is missing or empty is not looked up and keeps   *)
(* empty reviews; the lookups of a term are all made before its first      *)
(* batch is handed to the evaluator and its first scoring call; and every  *)
(* lookup is for a lead, never for a rejected record.                      *)
C19_LookupOncePerLeadWithId ==
    /\ ReviewsDone =>
          \A y \in 1..Len(leads) :
              /\ leads[y].business_id # << >> => Cardinality(LookupsOf(y)) = 1
              /\ leads[y].business_id = << >> =>
                    /\ LookupsOf(y) = {}
                    /\ leads[y].reviews = << >>
    /\ pc \in {"yelp", "searched"} => lookups = << >>
    /\ pc = "reviews" =>
          /\ n_calls = 0
          /\ handed = << >>
          /\ \A y \in 1..Len(leads) :
                Cardinality(LookupsOf(y)) =
                    IF y < k /\ leads[y].business_id # << >> THEN 1 ELSE 0
    /\ (n_calls > 0 \/ handed # << >>) => ReviewsDone
    /\ \A x \in 1..Len(lookups) :
          /\ lookups[x].pos \in 1..Len(leads)
          /\ leads[lookups[x].pos].review_count >= REVIEW_FILTER_MIN_COUNT
          /\ leads[lookups[x].pos].rating >= RATING_FILTER_MIN
          /\ leads[lookups[x].pos].business_id # << >>
    /\ Len(lookups) <= Len(leads)

(* C19 witness: a listing answer with rejected records, a kept lead with   *)
(* an id and a kept lead without; the batch has come back from the         *)
(* evaluator and exactly one lookup was made, for the lead with the id     *)
C19_Witness ==
    /\ page = PageMixed
    /\ Returned
    /\ n_calls >= 1
    /\ Len(leads) = 2
    /\ leads[2].business_id = << >>
    /\ Len(lookups) = 1
    /\ lookups[1].pos = 1

(* a candidate as the listing search created it *)
AsCreated(lead) == [lead EXCEPT !.reviews = << >>]

InTerm == {"reviews", "batch", "score"}

C20_Step ==
    /\ (pc \in InTerm /\ pc' \in InTerm) =>
          /\ Len(leads') = Len(leads)
          /\ \A y \in 1..Len(leads) :
                /\ AsCreated(leads'[y]) = AsCreated(leads[y])
                /\ leads'[y].reviews # leads[y].reviews => (pc = "reviews" /\ y = k)
    /\ (pc \in {"batch", "score"} /\ pc' \in {"batch", "score"}) => leads' = leads
    /\ pc = "score" => batch' = batch

(* C20: from its creation to the end of its term a candidate keeps the     *)
(* business id, name, address, phone, business type, rating, review count  *)
(* and source the listing search gave it; its reviews are written only by  *)
(* the review loop of run_scan, at the candidate's own turn; and a call of *)
(* ai_evaluate_batch changes neither the term's candidates nor its batch,  *)
(* the evaluated candidates being copies that carry the same fields.       *)
C20_CandidateFieldsFrozen ==
    /\ [][C20_Step]_vars
    /\ [](pc \in InTerm \cup {"searched"} =>
             /\ Len(leads) = Len(AppendLeads(<< >>, page, search_terms[t]))
             /\ \A y \in 1..Len(leads) :
                   AsCreated(leads[y]) = AppendLeads(<< >>, page, search_terms[t])[y])
    /\ [](pc \in {"yelp", "searched"} =>
             \A y \in 1..Len(leads) : leads[y].reviews = << >>)
    /\ [](pc = "score" =>
             batch = SubSeq(leads, i + 1, Min(i + BATCH_SIZE, Len(leads))))
    /\ [](\A x \in 1..Len(evaluated_leads) :
             \A f \in DOMAIN batch[x] : evaluated_leads[x][f] = batch[x][f])

(* C20 witness: a term of two batches is over, the first batch came back   *)
(* truncated by one candidate and the second was dropped; the candidates   *)
(* are as created but for the reviews the lookups gave                     *)
C20_Witness ==
    /\ TermBatched
    /\ Len(leads) = BATCH_SIZE + 1
    /\ Len(evaluated_term_leads) = BATCH_SIZE - 1
    /\ term_log[Len(term_log)].dropped = {BATCH_SIZE}
    /\ leads[1].reviews = <<"r1", "r2">>
    /\ leads[2].reviews = << >>
    /\ \A y \in 1..Len(leads) :
          AsCreated(leads[y]) = AppendLeads(<< >>, page, search_terms[t])[y]

====
